---- MODULE Spec2Model ----
(***************************************************************************)
(* Model of src/tauri/src/main.rs: the project-file container codec        *)
(* (read_project_file / write_project_file) and the workspace tree builder *)
(* (build_file_tree / open_mod_folder) with the directory commands.        *)
(*                                                                         *)
(* A Rust String is a sequence of Unicode scalar values; a Vec<u8> is a    *)
(* sequence of integers 0..255; Option<T> is the empty sequence (None) or  *)
(* a one-element sequence (Some).                                          *)
(***************************************************************************)
EXTENDS Integers, Sequences, FiniteSets, TLC

None == <<>>

Some(x) == <<x>>

\* ------------------------------------------------------------------ bounds

\* Longest document text (in characters) handed to a write command.
MaxLen == 2

\* Longest run of bytes following the head of a file that pre-exists on disk.
MaxTail == 2

\* Characters of the document texts: 'A' (1 byte in UTF-8), U+00E9 (2 bytes).
Chars == {65, 233}

\* Bytes of the pre-existing files' tails: 1F 8B (the gzip identification;
\* 1F is also an ASCII character and 8B a continuation byte), C3 (lead byte
\* of a 2-byte sequence) and ED (lead byte of a 3-byte sequence).
TailBytes == {31, 139, 195, 237}

SeqsUpTo(S, n) == UNION {[1..k -> S] : k \in 0..n}

Texts == SeqsUpTo(Chars, MaxLen)

\* ------------------------------------------------------------- the container

\* const MAGIC_BYTES: [u8; 4] = [0x52, 0x35, 0x56, 0x50];
MAGIC_BYTES == <<82, 53, 86, 80>>

Take(s, n) == SubSeq(s, 1, n)

Drop(s, n) == SubSeq(s, n + 1, Len(s))

\* ------------------------------------------------------------------- UTF-8

\* content.as_bytes(): the UTF-8 encoding of one scalar value.
char_bytes(c) ==
    IF c < 128 THEN <<c>>
    ELSE IF c < 2048 THEN <<192 + (c \div 64), 128 + (c % 64)>>
    ELSE IF c < 65536 THEN
        <<224 + (c \div 4096), 128 + ((c \div 64) % 64), 128 + (c % 64)>>
    ELSE <<240 + (c \div 262144), 128 + ((c \div 4096) % 64),
           128 + ((c \div 64) % 64), 128 + (c % 64)>>

RECURSIVE as_bytes(_)
\* content.as_bytes(): the bytes a String holds.
as_bytes(s) ==
    IF s = <<>> THEN <<>> ELSE char_bytes(Head(s)) \o as_bytes(Tail(s))

\* content.len(): a String's length is its length in bytes.
str_len_chars(s) == Len(s)

str_len(s) == Len(as_bytes(s))

IsCont(b) == b >= 128 /\ b <= 191

\* Width of the sequence a lead byte opens (0: not a lead byte), as in
\* core::str's UTF8_CHAR_WIDTH table.
utf8_char_width(b) ==
    IF b < 128 THEN 1
    ELSE IF b >= 194 /\ b <= 223 THEN 2
    ELSE IF b >= 224 /\ b <= 239 THEN 3
    ELSE IF b >= 240 /\ b <= 244 THEN 4
    ELSE 0

\* The range the second byte of a sequence must lie in, by lead byte.
second_ok(b1, b2) ==
    CASE b1 = 224 -> b2 >= 160 /\ b2 <= 191
      [] b1 = 237 -> b2 >= 128 /\ b2 <= 159
      [] b1 = 240 -> b2 >= 144 /\ b2 <= 191
      [] b1 = 244 -> b2 >= 128 /\ b2 <= 143
      [] OTHER -> IsCont(b2)

RECURSIVE utf8_decode(_, _)
\* String::from_utf8 / read_to_string's validation: walks the bytes, checks
\* every sequence and yields the characters; ok = FALSE is its Err.
utf8_decode(bytes, acc) ==
    IF bytes = <<>> THEN [ok |-> TRUE, chars |-> acc]
    ELSE LET b1 == bytes[1]
             w == utf8_char_width(b1)
         IN  IF w = 0 \/ Len(bytes) < w THEN [ok |-> FALSE, chars |-> <<>>]
             ELSE IF w = 1 THEN utf8_decode(Drop(bytes, 1), Append(acc, b1))
             ELSE IF ~second_ok(b1, bytes[2])
                     \/ (w >= 3 /\ ~IsCont(bytes[3]))
                     \/ (w = 4 /\ ~IsCont(bytes[4]))
                  THEN [ok |-> FALSE, chars |-> <<>>]
             ELSE LET c == CASE w = 2 -> ((b1 - 192) * 64) + (bytes[2] - 128)
                             [] w = 3 -> ((b1 - 224) * 4096)
                                         + ((bytes[2] - 128) * 64)
                                         + (bytes[3] - 128)
                             [] w = 4 -> ((b1 - 240) * 262144)
                                         + ((bytes[2] - 128) * 4096)
                                         + ((bytes[3] - 128) * 64)
                                         + (bytes[4] - 128)
                  IN  utf8_decode(Drop(bytes, w), Append(acc, c))

from_utf8(bytes) == utf8_decode(bytes, <<>>)

\* ------------------------------------------------------------------- gzip
\* flate2's GzEncoder / GzDecoder.  The envelope (RFC 1952) is modelled byte
\* for byte: 10-byte header, DEFLATE body, CRC-32 and ISIZE trailer.  The
\* body is DEFLATE's stored-block form (RFC 1951, 3.2.4): a valid DEFLATE
\* stream that every inflater decodes to the same bytes; the entropy coding
\* of Compression::best() is not modelled.

RECURSIVE bxor(_, _, _)
bxor(a, b, n) ==
    IF n = 0 THEN 0
    ELSE (((a % 2) + (b % 2)) % 2) + (2 * bxor(a \div 2, b \div 2, n - 1))

\* 32-bit words are four bytes, least significant first.
xor32(a, b) == [i \in 1..4 |-> bxor(a[i], b[i], 8)]

shr1(w) ==
    << (w[1] \div 2) + ((w[2] % 2) * 128), (w[2] \div 2) + ((w[3] % 2) * 128),
       (w[3] \div 2) + ((w[4] % 2) * 128), w[4] \div 2 >>

\* The reflected CRC-32 polynomial 0xEDB88320.
CRC_POLY == <<32, 131, 184, 237>>

RECURSIVE crc_step(_, _)
crc_step(w, k) ==
    IF k = 0 THEN w
    ELSE crc_step(IF w[1] % 2 = 1 THEN xor32(shr1(w), CRC_POLY) ELSE shr1(w),
                  k - 1)

crc_table == [i \in 0..255 |-> crc_step(<<i, 0, 0, 0>>, 8)]

RECURSIVE crc_fold(_, _)
crc_fold(w, bytes) ==
    IF bytes = <<>> THEN w
    ELSE crc_fold(xor32(crc_table[bxor(w[1], bytes[1], 8)],
                        <<w[2], w[3], w[4], 0>>),
                  Tail(bytes))

crc32(bytes) ==
    xor32(crc_fold(<<255, 255, 255, 255>>, bytes), <<255, 255, 255, 255>>)

le16(n) == <<n % 256, (n \div 256) % 256>>

le32(n) ==
    <<n % 256, (n \div 256) % 256, (n \div 65536) % 256,
      (n \div 16777216) % 256>>

\* ID1 ID2 CM=deflate FLG=0 MTIME=0 XFL=2 (best) OS=255 (unknown).
GZ_HEADER == <<31, 139, 8, 0, 0, 0, 0, 0, 2, 255>>

\* One final stored block: BFINAL=1 BTYPE=00, LEN, NLEN, the bytes.
deflate_stored(data) ==
    <<1>> \o le16(Len(data)) \o le16(65535 - Len(data)) \o data

\* GzEncoder::new(Vec::new(), Compression::best()), write_all, finish.
gz_encode(data) ==
    GZ_HEADER \o deflate_stored(data) \o crc32(data) \o le32(Len(data))

RECURSIVE inflate(_, _)
\* Inflates the blocks at the head of `bytes`; rest is what follows the
\* final block.  A block cut short, a LEN/NLEN mismatch or the reserved
\* block type is an error.  Huffman-coded blocks (BTYPE 01, 10) never
\* occur in the streams of this model and are reported as an error.
inflate(bytes, acc) ==
    IF bytes = <<>> THEN [ok |-> FALSE, data |-> <<>>, rest |-> <<>>]
    ELSE LET bfinal == bytes[1] % 2
             btype == (bytes[1] \div 2) % 4
         IN  IF btype # 0 \/ Len(bytes) < 5
             THEN [ok |-> FALSE, data |-> <<>>, rest |-> <<>>]
             ELSE LET len == bytes[2] + (256 * bytes[3])
                      nlen == bytes[4] + (256 * bytes[5])
                  IN  IF len + nlen # 65535 \/ Len(bytes) < 5 + len
                      THEN [ok |-> FALSE, data |-> <<>>, rest |-> <<>>]
                      ELSE LET out == acc \o SubSeq(bytes, 6, 5 + len)
                               rest == Drop(bytes, 5 + len)
                           IN  IF bfinal = 1
                               THEN [ok |-> TRUE, data |-> out, rest |-> rest]
                               ELSE inflate(rest, out)

\* GzDecoder::new(compressed_data) read to its end: the header is parsed
\* (flag bits select optional fields the encoder never writes; they do not
\* occur in the streams of this model and are reported as an error), the
\* body inflated, and the trailer's CRC-32 and ISIZE compared.  Bytes after
\* the member are not read.
gz_decode(bytes) ==
    IF Len(bytes) < 10 THEN [ok |-> FALSE, data |-> <<>>]
    ELSE IF bytes[1] # 31 \/ bytes[2] # 139 \/ bytes[3] # 8 \/ bytes[4] # 0
    THEN [ok |-> FALSE, data |-> <<>>]
    ELSE LET r == inflate(Drop(bytes, 10), <<>>)
         IN  IF ~r.ok \/ Len(r.rest) < 8 THEN [ok |-> FALSE, data |-> <<>>]
             ELSE IF SubSeq(r.rest, 1, 4) # crc32(r.data)
                     \/ SubSeq(r.rest, 5, 8) # le32(Len(r.data))
             THEN [ok |-> FALSE, data |-> <<>>]
             ELSE [ok |-> TRUE, data |-> r.data]

\* decoder.read_to_string(&mut decompressed): the decompressed bytes must
\* also be valid UTF-8.
read_to_string(bytes) ==
    LET z == gz_decode(bytes)
    IN  IF ~z.ok THEN [ok |-> FALSE, chars |-> <<>>] ELSE from_utf8(z.data)

\* ---------------------------------------------------------------- storage

VARIABLES
    disk,      \* the project file's path: [exists, data]
    written,   \* Some(t): write_project_file stored t and the file is untouched since
    fs,        \* the directory tree: path -> "absent" | "file" | "dir" | "denied"
    call,      \* the last command invoked: its name, path and depth arguments
    result     \* what that command returned

vars == <<disk, written, fs, call, result>>

NoFile == [exists |-> FALSE, data |-> <<>>]

File(bytes) == [exists |-> TRUE, data |-> bytes]

\* Files found on disk before any command runs: written by an older version
\* or by another tool.  Heads are the prefixes of the magic constant (so a
\* file may be shorter than it, equal it, or differ from it in its last
\* bytes); tails are arbitrary bytes.
RawFiles ==
    {Take(MAGIC_BYTES, k) \o t : k \in 0..4, t \in SeqsUpTo(TailBytes, MaxTail)}

\* fs::write(path, data): File::create (create or truncate) then write_all.
\* It fails at the open, leaving the path as it was, or during the write,
\* leaving the bytes written so far, or it stores all of data.
fs_write(file, data) ==
    {[file |-> file, ok |-> FALSE]}
    \cup {[file |-> File(Take(data, k)), ok |-> FALSE] : k \in 0..(Len(data) - 1)}
    \cup {[file |-> File(data), ok |-> TRUE]}

\* fs::read(path): Err when the path cannot be opened.
fs_read(file) ==
    IF file.exists THEN [ok |-> TRUE, data |-> file.data]
    ELSE [ok |-> FALSE, data |-> <<>>]

\* ------------------------------------------------------------------ codec

has_magic_short(data) == Len(data) >= 2 /\ Take(data, 2) = Take(MAGIC_BYTES, 2)

\* data.len() >= 4 && data[0..4] == MAGIC_BYTES
has_magic(data) == Len(data) >= 4 /\ Take(data, 4) = MAGIC_BYTES

ReadOk(content, compressed) ==
    [success |-> TRUE, content |-> Some(content),
     compressed |-> Some(compressed), error |-> None]

ReadErr(e) ==
    [success |-> FALSE, content |-> None, compressed |-> None,
     error |-> Some(e)]

read_project_file_fallback(file) ==
    LET r == fs_read(file)
    IN  IF ~r.ok THEN ReadErr("io")
        ELSE LET z == IF has_magic(r.data)
                      THEN read_to_string(Drop(r.data, 4))
                      ELSE [ok |-> FALSE, chars |-> <<>>]
                 u == from_utf8(r.data)
             IN  IF z.ok THEN ReadOk(z.chars, TRUE)
                 ELSE IF u.ok THEN ReadOk(u.chars, FALSE)
                 ELSE ReadErr("utf8")

\* async fn read_project_file(file_path) -> ProjectFileReadResult
read_project_file(file) ==
    LET r == fs_read(file)
    IN  IF ~r.ok THEN ReadErr("io")
        ELSE IF has_magic(r.data)
        THEN LET z == read_to_string(Drop(r.data, 4))
             IN  IF z.ok THEN ReadOk(z.chars, TRUE)
                 ELSE ReadErr("Failed to decompress")
        ELSE LET u == from_utf8(r.data)
             IN  IF u.ok THEN ReadOk(u.chars, FALSE) ELSE ReadErr("utf8")

final_data_plain(content) == gz_encode(as_bytes(content))

\* let mut final_data = MAGIC_BYTES.to_vec(); final_data.extend(compressed);
final_data(content) == MAGIC_BYTES \o gz_encode(as_bytes(content))

WriteOk(original_size, compressed_size) ==
    [success |-> TRUE, original_size |-> Some(original_size),
     compressed_size |-> Some(compressed_size), error |-> None]

WriteErr(e) ==
    [success |-> FALSE, original_size |-> None, compressed_size |-> None,
     error |-> Some(e)]

\* async fn write_project_file(file_path, content) -> ProjectFileWriteResult
\* The encoder's write_all and finish return io::Result; their Err arms are
\* taken when the environment makes the stream fail.
write_project_file(content) ==
    /\ call' = [op |-> "write_project_file", path |-> <<>>, max_depth |-> 0]
    /\ UNCHANGED fs
    /\ \/ /\ result' = WriteErr("Compression error")
          /\ UNCHANGED <<disk, written>>
       \/ LET original_size == str_len(content)
              data == final_data(content)
              compressed_size == Len(data)
          IN  \E w \in fs_write(disk, data) :
                /\ disk' = w.file
                /\ result' = IF w.ok THEN WriteOk(original_size, compressed_size)
                             ELSE WriteErr("io")
                /\ written' = IF w.ok THEN Some(content)
                              ELSE IF w.file = disk THEN written
                              ELSE None

ReadProjectFile ==
    /\ call' = [op |-> "read_project_file", path |-> <<>>, max_depth |-> 0]
    /\ result' = read_project_file(disk)
    /\ UNCHANGED <<disk, written, fs>>

\* async fn write_file(file_path, content) -> WriteFileResult, on the same path
write_file(content) ==
    /\ call' = [op |-> "write_file", path |-> <<>>, max_depth |-> 0]
    /\ UNCHANGED fs
    /\ \E w \in fs_write(disk, as_bytes(content)) :
          /\ disk' = w.file
          /\ result' = [success |-> w.ok,
                        error |-> IF w.ok THEN None ELSE Some("io")]
          /\ written' = IF w.file = disk THEN written ELSE None

WriteProjectFile == \E content \in Texts : write_project_file(content)

WriteFile == \E content \in Texts : write_file(content)

\* ------------------------------------------------------- directory tree

\* Deepest path (in components below the workspace directory) of the model.
MaxPathLen == 3

\* Largest max_depth handed to build_file_tree directly.
MaxDepthArg == 2

\* build_file_tree(path, 0, 3) in open_mod_folder.
OPEN_MAX_DEPTH == 3

\* File names, as the bytes of their OsString: "B", "a", "ab".
Names == {<<66>>, <<97>>, <<97, 98>>}

\* Below the first level only these names occur, and only the directories
\* named Spine have entries.
DeepNames == {<<66>>, <<97>>}

Spine == <<97>>

\* The paths of the model, relative to the workspace directory <<>>.
Paths ==
    {p \in UNION {[1..k -> Names] : k \in 1..MaxPathLen} :
        /\ \A i \in 1..(Len(p) - 1) : p[i] = Spine
        /\ Len(p) > 1 => p[Len(p)] \in DeepNames}

\* The paths create_directory is invoked on: below the first level, only
\* those named Spine.
DirPaths == {p \in Paths : Len(p) = 1 \/ p[Len(p)] = Spine}

\* The folders open_mod_folder is invoked on: the workspace directory and
\* the paths directly below it.
Roots == {<<>>} \cup {p \in Paths : Len(p) = 1}

\* The directories whose read permission the environment may withdraw.
Deniable == {<<Spine>>}

\* The orders in which a directory enumeration may yield the names.
Orders == {o \in [1..Cardinality(Names) -> Names] :
              \A i, j \in 1..Cardinality(Names) : o[i] = o[j] => i = j}

EmptyFs == [p \in Paths |-> "absent"]

\* What a path holds: "absent", "file", "dir", or "denied" (a directory that
\* cannot be read).  The workspace directory itself always exists.
Kind(f, p) ==
    IF p = <<>> THEN "dir" ELSE IF p \in DOMAIN f THEN f[p] ELSE "absent"

\* Path::exists()
exists(f, p) == Kind(f, p) # "absent"

\* entry.file_type().map(|t| t.is_dir()).unwrap_or(false)
is_dir(f, p) == Kind(f, p) \in {"dir", "denied"}

\* fs::read_dir(path) and entries.flatten().collect(): Err unless the path
\* is a readable directory; the entries (as paths) come in the order the
\* enumeration yields them.
read_dir(f, p, order) ==
    IF Kind(f, p) # "dir" THEN [ok |-> FALSE, entries |-> <<>>]
    ELSE [ok |-> TRUE,
          entries |-> LET present(n) == exists(f, Append(p, n))
                          names == SelectSeq(order, present)
                      IN  [i \in 1..Len(names) |-> Append(p, names[i])]]

\* entry.file_name()
file_name(e) == e[Len(e)]

RECURSIVE os_str_cmp(_, _)
\* a.file_name().cmp(&b.file_name()): OsString compares byte by byte.
os_str_cmp(a, b) ==
    IF a = <<>> /\ b = <<>> THEN "Equal"
    ELSE IF a = <<>> THEN "Less"
    ELSE IF b = <<>> THEN "Greater"
    ELSE IF a[1] < b[1] THEN "Less"
    ELSE IF a[1] > b[1] THEN "Greater"
    ELSE os_str_cmp(Tail(a), Tail(b))

compare_by_name_only(f, a, b) == os_str_cmp(file_name(a), file_name(b))

\* The closure of entries.sort_by: directories first, then by name.
compare(f, a, b) ==
    LET a_is_dir == is_dir(f, a)
        b_is_dir == is_dir(f, b)
    IN  IF a_is_dir /\ ~b_is_dir THEN "Less"
        ELSE IF ~a_is_dir /\ b_is_dir THEN "Greater"
        ELSE os_str_cmp(file_name(a), file_name(b))

RECURSIVE insert_sorted(_, _, _)
\* Inserts e after every element of the sorted sequence that is not
\* greater than it.
insert_sorted(f, sorted, e) ==
    IF sorted = <<>> THEN <<e>>
    ELSE IF compare(f, e, Head(sorted)) = "Less" THEN <<e>> \o sorted
    ELSE <<Head(sorted)>> \o insert_sorted(f, Tail(sorted), e)

RECURSIVE sort_by(_, _, _)
\* entries.sort_by(..): a stable sort; sorts the entries into acc.
sort_by(f, entries, acc) ==
    IF entries = <<>> THEN acc
    ELSE sort_by(f, Tail(entries), insert_sorted(f, acc, Head(entries)))

children_when_le(is_d, depth, max_depth) == is_d /\ depth <= max_depth

\* if is_dir && depth < max_depth
expands(is_d, depth, max_depth) == is_d /\ depth < max_depth

RECURSIVE build_file_tree(_, _, _, _, _)
\* fn build_file_tree(path, depth, max_depth) -> Vec<FileItem>
build_file_tree(f, path, depth, max_depth, order) ==
    IF depth > max_depth THEN <<>>
    ELSE LET r == read_dir(f, path, order)
         IN  IF ~r.ok THEN <<>>
             ELSE LET entries == sort_by(f, r.entries, <<>>)
                  IN  [i \in 1..Len(entries) |->
                         LET entry_path == entries[i]
                             d == is_dir(f, entry_path)
                         IN  [name |-> file_name(entry_path),
                              path |-> entry_path,
                              item_type |-> IF d THEN "folder" ELSE "file",
                              children |->
                                  IF expands(d, depth, max_depth)
                                  THEN Some(build_file_tree(f, entry_path,
                                                depth + 1, max_depth, order))
                                  ELSE None]]

\* async fn open_mod_folder(folder_path) -> OpenModFolderResult
open_mod_folder(f, folder_path, order) ==
    IF ~exists(f, folder_path)
    THEN [success |-> FALSE, tree |-> None, root_path |-> None,
          error |-> Some("Folder does not exist")]
    ELSE [success |-> TRUE,
          tree |-> Some(build_file_tree(f, folder_path, 0, OPEN_MAX_DEPTH,
                                        order)),
          root_path |-> Some(folder_path), error |-> None]

RECURSIVE remove_dir_all_recursive(_, _, _)
RECURSIVE remove_entries(_, _, _)
\* Removes the entries in turn and stops at the first that cannot be removed.
remove_entries(f, entries, order) ==
    IF entries = <<>> THEN [ok |-> TRUE, fs |-> f]
    ELSE LET e == Head(entries)
             r == IF is_dir(f, e) THEN remove_dir_all_recursive(f, e, order)
                  ELSE [ok |-> TRUE, fs |-> [f EXCEPT ![e] = "absent"]]
         IN  IF r.ok THEN remove_entries(r.fs, Tail(entries), order) ELSE r

\* A directory that cannot be read cannot be emptied.
remove_dir_all_recursive(f, p, order) ==
    LET d == read_dir(f, p, order)
    IN  IF ~d.ok THEN [ok |-> FALSE, fs |-> f]
        ELSE LET r == remove_entries(f, d.entries, order)
             IN  IF r.ok THEN [ok |-> TRUE, fs |-> [r.fs EXCEPT ![p] = "absent"]]
                 ELSE r

\* fs::remove_dir_all(path): Err on a path that is missing or not a directory.
remove_dir_all(f, p, order) ==
    IF ~is_dir(f, p) THEN [ok |-> FALSE, fs |-> f]
    ELSE remove_dir_all_recursive(f, p, order)

WriteFileResult(ok) ==
    [success |-> ok, error |-> IF ok THEN None ELSE Some("io")]

delete_directory_unguarded(f, dir_path, order) ==
    LET r == remove_dir_all(f, dir_path, order)
    IN  [fs |-> r.fs, result |-> WriteFileResult(r.ok)]

\* async fn delete_directory(dir_path) -> WriteFileResult
delete_directory(f, dir_path, order) ==
    IF ~exists(f, dir_path) THEN [fs |-> f, result |-> WriteFileResult(TRUE)]
    ELSE LET r == remove_dir_all(f, dir_path, order)
         IN  [fs |-> r.fs, result |-> WriteFileResult(r.ok)]

RECURSIVE create_dir_all(_, _, _)
\* fs::create_dir_all(path): creates the missing components from the k-th
\* on; Err when a component is not a directory.
create_dir_all(f, p, k) ==
    IF k > Len(p) THEN [ok |-> TRUE, fs |-> f]
    ELSE LET q == Take(p, k)
         IN  IF Kind(f, q) = "file" THEN [ok |-> FALSE, fs |-> f]
             ELSE create_dir_all(IF Kind(f, q) = "absent"
                                 THEN [f EXCEPT ![q] = "dir"] ELSE f,
                                 p, k + 1)

\* async fn create_directory(dir_path) -> WriteFileResult
create_directory(dir_path) ==
    LET r == create_dir_all(fs, dir_path, 1)
    IN  /\ fs' = r.fs
        /\ call' = [op |-> "create_directory", path |-> dir_path,
                    max_depth |-> 0]
        /\ result' = WriteFileResult(r.ok)
        /\ UNCHANGED <<disk, written>>

\* async fn write_file(file_path, content) -> WriteFileResult, seen from the
\* directory tree: the file comes to exist when its parent is a directory
\* and the path is not one.
write_file_at(file_path) ==
    LET ok == /\ is_dir(fs, Take(file_path, Len(file_path) - 1))
              /\ ~is_dir(fs, file_path)
    IN  /\ fs' = IF ok THEN [fs EXCEPT ![file_path] = "file"] ELSE fs
        /\ call' = [op |-> "write_file", path |-> file_path, max_depth |-> 0]
        /\ result' = WriteFileResult(ok)
        /\ UNCHANGED <<disk, written>>

DeleteDirectory(dir_path) ==
    \E order \in Orders :
        LET r == delete_directory(fs, dir_path, order)
        IN  /\ fs' = r.fs
            /\ call' = [op |-> "delete_directory", path |-> dir_path,
                        max_depth |-> 0]
            /\ result' = r.result
            /\ UNCHANGED <<disk, written>>

OpenModFolder(folder_path) ==
    \E order \in Orders :
        /\ call' = [op |-> "open_mod_folder", path |-> folder_path,
                    max_depth |-> OPEN_MAX_DEPTH]
        /\ result' = open_mod_folder(fs, folder_path, order)
        /\ UNCHANGED <<disk, written, fs>>

\* build_file_tree(root, 0, max_depth) on the workspace directory.
BuildFileTree(max_depth) ==
    \E order \in Orders :
        /\ call' = [op |-> "build_file_tree", path |-> <<>>,
                    max_depth |-> max_depth]
        /\ result' = [success |-> TRUE,
                      tree |-> Some(build_file_tree(fs, <<>>, 0, max_depth,
                                                    order)),
                      root_path |-> Some(<<>>), error |-> None]
        /\ UNCHANGED <<disk, written, fs>>

NoCall == [op |-> "none", path |-> <<>>, max_depth |-> 0]

NoResult == [success |-> TRUE, error |-> None]

Init ==
    /\ disk \in {NoFile} \cup {File(b) : b \in RawFiles}
    /\ written = None
    /\ fs = EmptyFs
    /\ call = NoCall
    /\ result = NoResult

Next == WriteProjectFile \/ ReadProjectFile \/ WriteFile

Spec == Init /\ [][Next]_vars

\* The environment withdraws or restores a directory's read permission.
Chmod(p) ==
    /\ Kind(fs, p) \in {"dir", "denied"}
    /\ fs' = [fs EXCEPT ![p] = IF fs[p] = "dir" THEN "denied" ELSE "dir"]
    /\ call' = NoCall
    /\ result' = NoResult
    /\ UNCHANGED <<disk, written>>

TreeInit ==
    /\ disk = NoFile
    /\ written = None
    /\ fs = EmptyFs
    /\ call = NoCall
    /\ result = NoResult

TreeNext ==
    \/ \E p \in DirPaths : create_directory(p)
    \/ \E p \in Paths : write_file_at(p)
    \/ \E p \in Paths : DeleteDirectory(p)
    \/ \E p \in Roots : OpenModFolder(p)
    \/ \E m \in 0..MaxDepthArg : BuildFileTree(m)
    \/ \E p \in Deniable : Chmod(p)

TreeSpec == TreeInit /\ [][TreeNext]_vars

\* ----------------------------------------------------- codec properties

\* The scalar value a sequence of 1 to 4 bytes carries in its payload bits.
PayloadOf(b) ==
    CASE Len(b) = 1 -> b[1]
      [] Len(b) = 2 -> ((b[1] % 32) * 64) + (b[2] % 64)
      [] Len(b) = 3 -> ((b[1] % 16) * 4096) + ((b[2] % 64) * 64) + (b[3] % 64)
      [] Len(b) = 4 -> ((b[1] % 8) * 262144) + ((b[2] % 64) * 4096)
                       + ((b[3] % 64) * 64) + (b[4] % 64)

\* The bytes are the encoding of one Unicode scalar value (not a surrogate,
\* at most U+10FFFF, in its shortest form).
EncodesScalar(b) ==
    LET c == PayloadOf(b)
    IN  /\ c <= 1114111
        /\ ~(c >= 55296 /\ c <= 57343)
        /\ char_bytes(c) = b

RECURSIVE IsUtf8(_)
\* Valid UTF-8: a concatenation of encodings of scalar values.
IsUtf8(bytes) ==
    \/ bytes = <<>>
    \/ \E n \in 1..(IF Len(bytes) < 4 THEN Len(bytes) ELSE 4) :
          EncodesScalar(Take(bytes, n)) /\ IsUtf8(Drop(bytes, n))

StartsWithMagic(bytes) ==
    Len(bytes) >= 4 /\ \A i \in 1..4 : bytes[i] = MAGIC_BYTES[i]

RECURSIVE Utf8Len(_)
\* The UTF-8 byte length of a text, from the widths of its characters.
Utf8Len(t) ==
    IF t = <<>> THEN 0
    ELSE (IF Head(t) < 128 THEN 1 ELSE IF Head(t) < 2048 THEN 2
          ELSE IF Head(t) < 65536 THEN 3 ELSE 4) + Utf8Len(Tail(t))

\* C1: round trip.  While the file is untouched since a successful
\* write_project_file(t), it begins with the 4 magic bytes, and a
\* read_project_file succeeds with content = t and compressed = true.
C1_RoundTrip ==
    written # None =>
        /\ disk.exists
        /\ StartsWithMagic(disk.data)
        /\ call.op = "read_project_file" =>
              /\ result.success
              /\ result.content = written
              /\ result.compressed = Some(TRUE)
              /\ result.error = None

\* A text with a multi-byte character was written and read back.
C1_Witness ==
    /\ call.op = "read_project_file"
    /\ written = Some(<<233, 65>>)
    /\ result.success
    /\ result.content = Some(<<233, 65>>)

\* C2: write-failure atomicity.  When write_project_file fails at the
\* byte-write, the path holds its content from before the call or nothing
\* that read_project_file accepts.
C2_WriteFailureAtomic ==
    [][(/\ call'.op = "write_project_file"
        /\ ~result'.success
        /\ result'.error = Some("io"))
       => (disk' = disk \/ ~read_project_file(disk').success)]_vars

\* C3: backward compatibility.  Reading bytes that are shorter than 4 bytes
\* or do not start with the magic constant takes the plain path: success
\* with compressed = false and the bytes as content when they are valid
\* UTF-8, the encoding error and no content exactly when they are not.
C3_PlainPath ==
    (call.op = "read_project_file" /\ disk.exists
     /\ ~StartsWithMagic(disk.data)) =>
        IF IsUtf8(disk.data)
        THEN /\ result.success
             /\ result.compressed = Some(FALSE)
             /\ result.content # None
             /\ as_bytes(result.content[1]) = disk.data
             /\ result.error = None
        ELSE /\ ~result.success
             /\ result.content = None
             /\ result.compressed = None
             /\ result.error = Some("utf8")

\* A file of the first two magic bytes and a 2-byte character was read as
\* plain text.
C3_Witness ==
    /\ call.op = "read_project_file"
    /\ disk = File(<<82, 53, 195, 139>>)
    /\ result.success
    /\ result.compressed = Some(FALSE)
    /\ result.content = Some(<<82, 53, 203>>)

\* C7: magic collision.  Reading valid UTF-8 text whose first 4 bytes are
\* the magic constant fails with the decompression error and returns no
\* content; it never falls back to the plain path.
C7_MagicCollision ==
    (call.op = "read_project_file" /\ disk.exists
     /\ StartsWithMagic(disk.data) /\ IsUtf8(disk.data)) =>
        /\ ~result.success
        /\ result.content = None
        /\ result.compressed = None
        /\ result.error = Some("Failed to decompress")

\* The plain text "R5VP" followed by U+00CB (C3 8B) was read and rejected.
C7_Witness ==
    /\ call.op = "read_project_file"
    /\ disk = File(MAGIC_BYTES \o <<195, 139>>)
    /\ IsUtf8(disk.data)
    /\ ~result.success

\* C9: size reporting.  A successful write_project_file(t) returns
\* original_size = the UTF-8 byte length of t and compressed_size = the
\* number of bytes in the file, which is 4 plus the compressed stream's
\* length; a failed one returns neither size.
C9_SizeReporting ==
    call.op = "write_project_file" =>
        IF result.success
        THEN /\ written # None
             /\ result.original_size = Some(Utf8Len(written[1]))
             /\ result.compressed_size = Some(Len(disk.data))
             /\ Len(disk.data) = 4 + Len(gz_encode(as_bytes(written[1])))
        ELSE result.original_size = None /\ result.compressed_size = None

\* A text of two characters and three bytes was written.
C9_Witness ==
    /\ call.op = "write_project_file"
    /\ result.success
    /\ written = Some(<<65, 233>>)
    /\ result.original_size = Some(3)

\* ------------------------------------------------------ tree properties

\* The last command returned a tree.
TreeReturned ==
    call.op \in {"build_file_tree", "open_mod_folder"} /\ result.success

RECURSIVE TreeShape(_, _, _)
\* Every node of items, which lie at depth d, is at most at depth max, is a
\* folder exactly when its path is a directory, and has a children field
\* exactly when it is a folder above depth max.
TreeShape(items, d, max) ==
    \A i \in 1..Len(items) :
        LET it == items[i]
        IN  /\ d <= max
            /\ it.item_type \in {"folder", "file"}
            /\ it.item_type = "folder" <=> Kind(fs, it.path) \in {"dir", "denied"}
            /\ it.children # None <=> (it.item_type = "folder" /\ d < max)
            /\ it.children # None => TreeShape(it.children[1], d + 1, max)

\* C4: in a tree returned by build_file_tree(root, 0, maxDepth), a node at
\* depth d has a children field if and only if it is a folder and
\* d < maxDepth: files and folders at depth maxDepth have none (absent, not
\* an empty list), and no node lies deeper than maxDepth.
C4_ChildrenPresence ==
    TreeReturned => TreeShape(result.tree[1], 0, call.max_depth)

\* With maxDepth = 1, folder a/a at depth 1 has entries on disk and no
\* children field, and its parent at depth 0 has one.
C4_Witness ==
    /\ call.op = "build_file_tree"
    /\ call.max_depth = 1
    /\ exists(fs, <<Spine, Spine, Spine>>)
    /\ \E i \in 1..Len(result.tree[1]) :
          LET it == result.tree[1][i]
          IN  /\ it.path = <<Spine>>
              /\ it.children # None
              /\ \E j \in 1..Len(it.children[1]) :
                    /\ it.children[1][j].path = <<Spine, Spine>>
                    /\ it.children[1][j].item_type = "folder"
                    /\ it.children[1][j].children = None

\* a sorts strictly before b in ordinal (byte-wise) order.
OrdinalLess(a, b) ==
    \E k \in 1..(Len(a) + 1) :
        /\ Len(b) >= k
        /\ \A i \in 1..(k - 1) : a[i] = b[i]
        /\ k <= Len(a) => a[k] < b[k]

RECURSIVE Ordered(_)
\* At every level: no file before a folder, and names ascending within a kind.
Ordered(items) ==
    /\ \A i, j \in 1..Len(items) :
          i < j =>
              /\ ~(items[i].item_type = "file" /\ items[j].item_type = "folder")
              /\ items[i].item_type = items[j].item_type
                    => OrdinalLess(items[i].name, items[j].name)
    /\ \A i \in 1..Len(items) :
          items[i].children # None => Ordered(items[i].children[1])

\* C5: ordering and determinism.  At every level the returned siblings are
\* all folders before all files and, within a kind, in ascending ordinal
\* name order, and every enumeration order of the same directory gives
\* the same tree.
C5_Ordering ==
    TreeReturned =>
        /\ Ordered(result.tree[1])
        /\ \A o \in Orders :
              build_file_tree(fs, call.path, 0, call.max_depth, o)
                  = result.tree[1]

\* Folder "a" is listed before the files "B" and "ab", and inside it the
\* file "B" before the file "a".
C5_Witness ==
    /\ call.op = "open_mod_folder"
    /\ call.path = <<>>
    /\ result.success
    /\ Len(result.tree[1]) = 3
    /\ [i \in 1..3 |-> result.tree[1][i].name] = <<<<97>>, <<66>>, <<97, 98>>>>
    /\ [i \in 1..3 |-> result.tree[1][i].item_type] = <<"folder", "file", "file">>
    /\ result.tree[1][1].children # None
    /\ Len(result.tree[1][1].children[1]) = 2
    /\ result.tree[1][1].children[1][1].name = <<66>>
    /\ result.tree[1][1].children[1][2].item_type = "file"

\* C6: root precondition.  open_mod_folder(rootPath) returns a tree only
\* when rootPath exists as a directory; when it does not exist or is not a
\* directory it reports the error and returns no tree.
C6_RootPrecondition ==
    call.op = "open_mod_folder" =>
        IF Kind(fs, call.path) \in {"dir", "denied"}
        THEN result.success /\ result.tree # None
        ELSE ~result.success /\ result.tree = None /\ result.error # None

\* C8: idempotent delete.  delete_directory on a path that does not exist
\* reports success and changes nothing; a successful delete_directory(p)
\* leaves p non-existent, and a delete_directory(p) that directly follows
\* a successful one reports success too.
C8_IdempotentDelete ==
    [][call'.op = "delete_directory" =>
          /\ ~exists(fs, call'.path) =>
                /\ result'.success
                /\ result'.error = None
                /\ fs' = fs
          /\ result'.success => ~exists(fs', call'.path)
          /\ (/\ call.op = "delete_directory"
              /\ call.path = call'.path
              /\ result.success) => result'.success /\ fs' = fs]_vars

\* delete_directory(a/a) reported success while a is a file, so a/a did not
\* exist when it was called.
C8_Witness ==
    /\ call.op = "delete_directory"
    /\ call.path = <<Spine, Spine>>
    /\ Kind(fs, <<Spine>>) = "file"
    /\ result.success
    /\ result.error = None

RECURSIVE EmptyMeansEmpty(_)
\* Every folder node whose children list is present and empty is a
\* directory without entries.
EmptyMeansEmpty(items) ==
    \A i \in 1..Len(items) :
        LET it == items[i]
        IN  it.children # None =>
                /\ it.children[1] = <<>> =>
                      \A n \in Names : ~exists(fs, Append(it.path, n))
                /\ EmptyMeansEmpty(it.children[1])

\* C10: meaning of an empty children list.  In a returned tree a folder
\* whose children field is present and empty is a directory that has no
\* entries; a folder that has entries, readable or not, is never reported
\* with an empty children list.
C10_EmptyChildrenMeansEmpty ==
    TreeReturned => EmptyMeansEmpty(result.tree[1])

====
